---- MODULE Spec2Model ----
(***************************************************************************)
(* Model of feereport.py, a c-lightning plugin that reports the fee        *)
(* policy of every funded channel and the routing fees earned during the   *)
(* last day, week and month.                                               *)
(*                                                                         *)
(* Time is counted in hours since the epoch.  Python strings are sequences *)
(* of one-character strings, dicts are records whose DOMAIN is the set of  *)
(* keys that are present.                                                  *)
(***************************************************************************)
EXTENDS Integers, Sequences, FiniteSets, TLC

\* ------------------------------------------------------------------ bounds
MaxChannels == 2      \* longest list-funds response
MaxDetails  == 2      \* longest list-channels response
MaxForwards == 2      \* longest list-forwards response
MaxTick     == 1      \* hours the clock may advance during the run
StartClock  == 1000   \* epoch hour at which the run starts

\* ------------------------------------------------------- program constants
DayLen   == 24        \* timedelta(hours = 24)
WeekLen  == 168       \* timedelta(days = 7)
MonthLen == 720       \* timedelta(days = 30)
MsatPerSat == 1000    \* divisor of the three sums
Million  == 1000000   \* divisor of fee_per_millionth
RateDigits == 8       \* "%.8f"

None == "None"

Has(d, key) == key \in DOMAIN d

SeqsUpTo(S, n) == UNION {[1..k -> S] : k \in 0..n}

\* ------------------------------------------------------------ str(), split
DigitChars == <<"0", "1", "2", "3", "4", "5", "6", "7", "8", "9">>

RECURSIVE Str(_)
\* str(n) of a non-negative int
Str(n) == IF n < 10 THEN <<DigitChars[n + 1]>>
          ELSE Str(n \div 10) \o <<DigitChars[(n % 10) + 1]>>

RECURSIVE SplitAcc(_, _, _, _)
SplitAcc(s, sep, k, cur) ==
    IF k > Len(s) THEN <<cur>>
    ELSE IF s[k] = sep THEN <<cur>> \o SplitAcc(s, sep, k + 1, <<>>)
         ELSE SplitAcc(s, sep, k + 1, Append(cur, s[k]))

\* s.split(sep) for a one-character separator
Split(s, sep) == SplitAcc(s, sep, 1, <<>>)

RECURSIVE ZeroPad(_, _)
ZeroPad(s, width) == IF Len(s) >= width THEN s ELSE ZeroPad(<<"0">> \o s, width)

RECURSIVE Pow10(_)
Pow10(k) == IF k = 0 THEN 1 ELSE 10 * Pow10(k - 1)

RECURSIVE FracDigits(_, _, _)
\* long division: the first k decimals of r / den (r < den) as a number,
\* paired with the remainder left after them
FracDigits(r, den, k) ==
    IF k = 0 THEN [val |-> 0, rem |-> r]
    ELSE LET prev == FracDigits(r, den, k - 1)
         IN  [val |-> prev.val * 10 + ((prev.rem * 10) \div den),
              rem |-> (prev.rem * 10) % den]

\* "%.<digits>f" % float(num / den): the quotient rounded to the given number
\* of decimals (round-half-even on the remainder), zero padded.  The double
\* nearest to num / den prints the same digits as the exact quotient for
\* every num in the model's range.
FormatFixed(num, den, digits) ==
    LET ip   == num \div den
        fd   == FracDigits(num % den, den, digits)
        up   == \/ 2 * fd.rem > den
                \/ 2 * fd.rem = den /\ fd.val % 2 = 1
        frac == IF up THEN fd.val + 1 ELSE fd.val
        carry == frac = Pow10(digits)
    IN  Str(IF carry THEN ip + 1 ELSE ip) \o <<".">>
          \o ZeroPad(Str(IF carry THEN 0 ELSE frac), digits)

FeeRateShort(fee_per_millionth) == FormatFixed(fee_per_millionth, Million, 6)

\* "%.8f" % float(detail["fee_per_millionth"] / 1000000)
FeeRate(fee_per_millionth) == FormatFixed(fee_per_millionth, Million, RateDigits)

\* ------------------------------------------------------------- wall clock
\* A time zone with at most one change of its UTC offset: the offset is
\* `before` for instants earlier than `at`, and `after` from `at` on.
UTC        == [at |-> 0, before |-> 0, after |-> 0]
SpringZone == [at |-> StartClock - 12, before |-> 1, after |-> 2]
FallZone   == [at |-> StartClock - 12, before |-> 2, after |-> 1]
Zones      == {UTC, SpringZone, FallZone}

UtcOffset(zone, instant) == IF instant < zone.at THEN zone.before ELSE zone.after

\* datetime.now(): the naive local reading of the clock
LocalNow(zone, instant) == instant + UtcOffset(zone, instant)

\* naive_datetime.timestamp(): the local reading taken as local time, fold 0
Timestamp(zone, local) ==
    IF local - zone.before < zone.at THEN local - zone.before
    ELSE IF local - zone.after >= zone.at THEN local - zone.after
    ELSE local - zone.before

\* ------------------------------------------------------- daemon responses
OurId  == "02aa"
PeerId == "03bb"

Scid3 == <<"7", "x", "1", "x", "0">>      \* "7x1x0"
Scid2 == <<"7", "x", "1">>                \* "7x1", lacks the output segment
Txid  == <<"a", "b">>

\* entries of list-funds "channels"
ChannelSet ==
    { [short_channel_id |-> Scid3, funding_txid |-> Txid],
      [short_channel_id |-> Scid3, funding_txid |-> Txid, funding_output |-> 1],
      [short_channel_id |-> Scid3],
      [short_channel_id |-> Scid2, funding_txid |-> Txid] }

\* entries of list-channels "channels"
DetailSet ==
    { [source |-> OurId,  base_fee_millisatoshi |-> 1000, fee_per_millionth |-> 100],
      [source |-> OurId,  base_fee_millisatoshi |-> 0,    fee_per_millionth |-> 1500000],
      [source |-> PeerId, base_fee_millisatoshi |-> 1,    fee_per_millionth |-> 999999] }

\* entries of list-forwards "forwards"
ForwardSet ==
    { [fee |-> 999,  status |-> "settled", resolved_time |-> StartClock - 2],
      [fee |-> 1000, status |-> "settled", resolved_time |-> StartClock - 2],
      [fee |-> 1000, status |-> "settled", resolved_time |-> StartClock - 23],
      [fee |-> 1000, status |-> "settled", resolved_time |-> StartClock - 167],
      [fee |-> 1000, status |-> "settled", resolved_time |-> StartClock - 24],
      [fee |-> 1000, status |-> "settled", resolved_time |-> StartClock - 720],
      [fee |-> 1000, status |-> "settled", resolved_time |-> StartClock - 960],
      [fee |-> 1000, status |-> "settled"],
      [fee |-> 1000, status |-> "failed", resolved_time |-> StartClock - 2],
      [status |-> "offered"],
      [status |-> "settled", resolved_time |-> StartClock - 2],
      [fee |-> 1000, resolved_time |-> StartClock - 2] }

\* ------------------------------------------------- one channel's fee entry
FundingOutputFromScid(channel) ==
    LET short_channel_id_parts == Split(channel.short_channel_id, "x")
    IN  IF Len(short_channel_id_parts) < 3
        THEN [error |-> "IndexError", value |-> <<>>]
        ELSE [error |-> None, value |-> short_channel_id_parts[3]]

FundingOutputScidOnly(channel) == FundingOutputFromScid(channel)

FundingOutput(channel) ==
    IF Has(channel, "funding_output")
    THEN [error |-> None, value |-> Str(channel.funding_output)]
    ELSE FundingOutputFromScid(channel)

ChannelFeeLenient(channel, detail) ==
    LET funding_output == FundingOutputFromScid(channel)
        index == IF Has(channel, "funding_output") THEN Str(channel.funding_output)
                 ELSE funding_output.value
        txid  == IF Has(channel, "funding_txid") THEN channel.funding_txid ELSE <<>>
    IN  [error |-> None,
         fees  |-> << [chan_point    |-> txid \o <<":">> \o index,
                       base_fee_msat |-> Str(detail.base_fee_millisatoshi),
                       fee_per_mil   |-> Str(detail.fee_per_millionth),
                       fee_rate      |-> FeeRate(detail.fee_per_millionth)] >>]

\* the dict appended to channel_fees
ChannelFee(channel, detail) ==
    LET funding_output == FundingOutput(channel)
    IN  IF funding_output.error # None
        THEN [error |-> funding_output.error, fees |-> <<>>]
        ELSE IF ~Has(channel, "funding_txid")
        THEN [error |-> "KeyError", fees |-> <<>>]
        ELSE [error |-> None,
              fees  |-> << [chan_point    |-> channel.funding_txid \o <<":">>
                                                \o funding_output.value,
                            base_fee_msat |-> Str(detail.base_fee_millisatoshi),
                            fee_per_mil   |-> Str(detail.fee_per_millionth),
                            fee_rate      |-> FeeRate(detail.fee_per_millionth)] >>]

RECURSIVE ScanAll(_, _, _, _)
ScanAll(channel, channel_detail, nodeid, k) ==
    IF k > Len(channel_detail) THEN [error |-> None, fees |-> <<>>]
    ELSE LET rest == ScanAll(channel, channel_detail, nodeid, k + 1)
             this == IF channel_detail[k].source = nodeid
                     THEN ChannelFee(channel, channel_detail[k])
                     ELSE [error |-> None, fees |-> <<>>]
         IN  IF this.error # None THEN this
             ELSE [error |-> rest.error, fees |-> this.fees \o rest.fees]

RECURSIVE ScanStrict(_, _, _, _)
ScanStrict(channel, channel_detail, nodeid, k) ==
    IF k > Len(channel_detail) THEN [error |-> "KeyError", fees |-> <<>>]
    ELSE IF channel_detail[k].source = nodeid
         THEN ChannelFee(channel, channel_detail[k])
         ELSE ScanStrict(channel, channel_detail, nodeid, k + 1)

RECURSIVE ScanDetails(_, _, _, _)
\* the inner for loop: the first detail whose source is our node, then break
ScanDetails(channel, channel_detail, nodeid, k) ==
    IF k > Len(channel_detail) THEN [error |-> None, fees |-> <<>>]
    ELSE IF channel_detail[k].source = nodeid
         THEN ChannelFee(channel, channel_detail[k])
         ELSE ScanDetails(channel, channel_detail, nodeid, k + 1)

\* --------------------------------------------------------------- forwards
SettledOnly(fwd) == fwd.status = "settled"

\* the condition of the generator expression (status is read first)
Qualifies(fwd) == fwd.status = "settled" /\ Has(fwd, "resolved_time")

\* what pulling the next element out of fee_data does with forward fwd:
\* skip it, yield (fee, resolved_time), or raise
FeeDatum(fwd) ==
    IF ~Has(fwd, "status") THEN [error |-> "KeyError", yield |-> FALSE]
    ELSE IF ~Qualifies(fwd) THEN [error |-> None, yield |-> FALSE]
    ELSE IF ~Has(fwd, "fee") \/ ~Has(fwd, "resolved_time")
         THEN [error |-> "KeyError", yield |-> FALSE]
    ELSE [error |-> None, yield |-> TRUE,
          fee_msat |-> fwd.fee, resolved_time |-> fwd.resolved_time]

RoundToSat(msat) == Str((msat + 500) \div MsatPerSat)

\* str(int(msat / 1000)): true division, then truncation toward zero; the
\* sums are never negative, and the double quotient is exact to the unit for
\* every sum in the model's range
ToSat(msat) == Str(msat \div MsatPerSat)

\* ------------------------------------------------------------------ state
VARIABLES
    rpc,            \* module global: the LightningRpc handle
    our_nodeid,     \* module global: getinfo()["id"]
    clock,          \* the instant (epoch hours)
    tz,             \* the host's time zone
    pc,             \* position of the plugin / of the running feereport call
    channels, i, channel_detail, channel_fees,
    forwards, j,    \* fee_data: the list it iterates and the next index
    now, day_ago, week_ago, month_ago,
    day_fee_sum, week_fee_sum, month_fee_sum,
    result,         \* the dict feereport returns
    error,          \* the exception that ended the call
    calls,          \* RPC requests issued by the running call
    served          \* what the host got back from the last finished call

globals == <<rpc, our_nodeid>>
env     == <<clock, tz>>
chans   == <<channels, i, channel_detail, channel_fees>>
fwds    == <<forwards, j>>
cutoffs == <<now, day_ago, week_ago, month_ago>>
sums    == <<day_fee_sum, week_fee_sum, month_fee_sum>>
vars    == <<globals, env, pc, chans, fwds, cutoffs, sums, result, error,
             calls, served>>

LightningDir == "/home/user/.lightning"
RpcFile      == "lightning-rpc"

\* the frame of a call that has not started
NoFrame ==
    /\ channels = <<>> /\ i = 1 /\ channel_detail = <<>> /\ channel_fees = <<>>
    /\ forwards = <<>> /\ j = 1
    /\ now = None /\ day_ago = None /\ week_ago = None /\ month_ago = None
    /\ day_fee_sum = 0 /\ week_fee_sum = 0 /\ month_fee_sum = 0
    /\ result = None /\ error = None /\ calls = <<>>

InitIn(zones) ==
    /\ rpc = None /\ our_nodeid = None
    /\ clock = StartClock /\ tz \in zones
    /\ pc = "uninit"
    /\ NoFrame
    /\ served = None

\* the call raises: no value is returned
Raise(exception) ==
    /\ pc' = "failed"
    /\ error' = exception
    /\ result' = None

\* ---------------------------------------------------------------- actions
\* @plugin.init(): rpc and our_nodeid are set from the configuration and from
\* getinfo(); the lines it logs, one of them about the daemon's version, go to
\* the host and leave nothing behind in the plugin
PluginInit ==
    /\ pc = "uninit"
    /\ rpc' = <<LightningDir, RpcFile>>
    /\ our_nodeid' = OurId
    /\ pc' = "idle"
    /\ UNCHANGED <<env, chans, fwds, cutoffs, sums, result, error, calls,
                   served>>

\* time passes
Tick ==
    /\ pc # "uninit"
    /\ clock < StartClock + MaxTick
    /\ clock' = clock + 1
    /\ UNCHANGED <<globals, tz, pc, chans, fwds, cutoffs, sums, result, error,
                   calls, served>>

\* the host sends a feereport request
Invoke ==
    /\ pc = "idle"
    /\ pc' = "listfunds"
    /\ UNCHANGED <<globals, env, chans, fwds, cutoffs, sums, result, error,
                   calls, served>>

LogOnce(log_, request) ==
    IF \E k \in 1..Len(log_) : log_[k][1] = request[1] THEN log_
    ELSE Append(log_, request)

\* the request reaches the daemon
Request(log_, request) == Append(log_, request)

\* channels = rpc.listfunds()["channels"]; channel_fees = []
ListFunds(responses) ==
    /\ pc = "listfunds"
    /\ calls' = Request(calls, <<"listfunds">>)
    /\ \/ /\ Raise("RpcError")
          /\ UNCHANGED <<chans>>
       \/ \E response \in responses :
             /\ channels' = response
             /\ channel_fees' = <<>>
             /\ i' = 1
             /\ pc' = IF response = <<>> THEN "listforwards" ELSE "chan_loop"
             /\ UNCHANGED <<channel_detail, result, error>>
    /\ UNCHANGED <<globals, env, fwds, cutoffs, sums, served>>

\* one iteration of "for channel in channels"
ListChannels(responses) ==
    /\ pc = "chan_loop"
    /\ calls' = Request(calls, <<"listchannels", channels[i].short_channel_id>>)
    /\ \/ /\ Raise("RpcError")
          /\ UNCHANGED <<chans>>
       \/ \E response \in responses :
             LET scan == ScanDetails(channels[i], response, our_nodeid, 1)
             IN  /\ channel_detail' = response
                 /\ IF scan.error # None
                    THEN /\ Raise(scan.error)
                         /\ UNCHANGED <<channels, i, channel_fees>>
                    ELSE /\ channel_fees' = channel_fees \o scan.fees
                         /\ i' = i + 1
                         /\ pc' = IF i = Len(channels) THEN "listforwards"
                                  ELSE "chan_loop"
                         /\ UNCHANGED <<channels, result, error>>
    /\ UNCHANGED <<globals, env, fwds, cutoffs, sums, served>>

\* fee_data = (... for fwd in rpc.listforwards()["forwards"] if ...): the
\* call is made when the generator is created, the filter runs lazily
ListForwards(responses) ==
    /\ pc = "listforwards"
    /\ calls' = Request(calls, <<"listforwards">>)
    /\ \/ /\ Raise("RpcError")
          /\ UNCHANGED <<fwds>>
       \/ \E response \in responses :
             /\ forwards' = response
             /\ j' = 1
             /\ pc' = "read_clock"
             /\ UNCHANGED <<result, error>>
    /\ UNCHANGED <<globals, env, chans, cutoffs, sums, served>>

ReadAtImport == LocalNow(tz, StartClock)

\* now = datetime.now()
ReadNow == LocalNow(tz, clock)

\* now .. month_fee_sum = 0
ReadClock ==
    /\ pc = "read_clock"
    /\ now' = ReadNow
    /\ day_ago'   = Timestamp(tz, now' - DayLen)
    /\ week_ago'  = Timestamp(tz, now' - WeekLen)
    /\ month_ago' = Timestamp(tz, now' - MonthLen)
    /\ day_fee_sum' = 0 /\ week_fee_sum' = 0 /\ month_fee_sum' = 0
    /\ pc' = "sum_loop"
    /\ UNCHANGED <<globals, env, chans, fwds, result, error, calls, served>>

\* "for fwd in fee_data": pull one forward through the filter and add it
Accumulate ==
    /\ pc = "sum_loop"
    /\ j <= Len(forwards)
    /\ LET fwd == FeeDatum(forwards[j])
       IN  IF fwd.error # None
           THEN /\ Raise(fwd.error)
                /\ UNCHANGED <<j, sums>>
           ELSE /\ j' = j + 1
                /\ month_fee_sum' =
                     IF fwd.yield /\ fwd.resolved_time > month_ago
                     THEN month_fee_sum + fwd.fee_msat ELSE month_fee_sum
                /\ week_fee_sum' =
                     IF fwd.yield /\ fwd.resolved_time > month_ago
                                  /\ fwd.resolved_time > week_ago
                     THEN week_fee_sum + fwd.fee_msat ELSE week_fee_sum
                /\ day_fee_sum' =
                     IF fwd.yield /\ fwd.resolved_time > month_ago
                                  /\ fwd.resolved_time > week_ago
                                  /\ fwd.resolved_time > day_ago
                     THEN day_fee_sum + fwd.fee_msat ELSE day_fee_sum
                /\ UNCHANGED <<pc, result, error>>
    /\ UNCHANGED <<globals, env, chans, forwards, cutoffs, calls, served>>

\* return {...}
Return ==
    /\ pc = "sum_loop"
    /\ j > Len(forwards)
    /\ result' = [channel_fees  |-> channel_fees,
                  day_fee_sum   |-> ToSat(day_fee_sum),
                  week_fee_sum  |-> ToSat(week_fee_sum),
                  month_fee_sum |-> ToSat(month_fee_sum)]
    /\ pc' = "done"
    /\ UNCHANGED <<globals, env, chans, fwds, cutoffs, sums, error, calls,
                   served>>

\* the host receives the result or the error; the frame is gone
Reply ==
    /\ pc \in {"done", "failed"}
    /\ served' = IF pc = "done" THEN "result" ELSE "error"
    /\ pc' = "idle"
    /\ channels' = <<>> /\ i' = 1 /\ channel_detail' = <<>> /\ channel_fees' = <<>>
    /\ forwards' = <<>> /\ j' = 1
    /\ now' = None /\ day_ago' = None /\ week_ago' = None /\ month_ago' = None
    /\ day_fee_sum' = 0 /\ week_fee_sum' = 0 /\ month_fee_sum' = 0
    /\ result' = None /\ error' = None /\ calls' = <<>>
    /\ UNCHANGED <<globals, env>>

\* --------------------------------------------------------- specifications
FundsRich    == SeqsUpTo(ChannelSet, MaxChannels)
DetailsRich  == SeqsUpTo(DetailSet, MaxDetails)
ForwardsRich == SeqsUpTo(ForwardSet, MaxForwards)

FundsFew    == {<<>>, << [short_channel_id |-> Scid3, funding_txid |-> Txid] >>}
DetailsFew  == {<<>>, << [source |-> OurId, base_fee_millisatoshi |-> 1000,
                          fee_per_millionth |-> 100] >>}
ForwardsFew == {<< [fee |-> 1999, status |-> "settled",
                    resolved_time |-> StartClock - 2] >>}

\* channel side explored in full, in a zone without offset changes
Init == InitIn({UTC})

Next ==
    \/ PluginInit \/ Tick \/ Invoke
    \/ ListFunds(FundsRich) \/ ListChannels(DetailsRich)
    \/ ListForwards(ForwardsFew)
    \/ ReadClock \/ Accumulate \/ Return \/ Reply

Spec == Init /\ [][Next]_vars

\* forwarding side explored in full, in every zone
InitFwd == InitIn(Zones)

NextFwd ==
    \/ PluginInit \/ Tick \/ Invoke
    \/ ListFunds(FundsFew) \/ ListChannels(DetailsFew)
    \/ ListForwards(ForwardsRich)
    \/ ReadClock \/ Accumulate \/ Return \/ Reply

SpecFwd == InitFwd /\ [][NextFwd]_vars

\* ================================================================ claims
Last(s) == s[Len(s)]

RECURSIVE ParseDec(_)
\* the number a sequence of decimal digits denotes
ParseDec(s) ==
    IF s = <<>> THEN 0
    ELSE ParseDec(SubSeq(s, 1, Len(s) - 1)) * 10
           + (CHOOSE d \in 0..9 : DigitChars[d + 1] = Last(s))

IsDigits(s) == \A k \in 1..Len(s) : \E d \in 1..10 : DigitChars[d] = s[k]

\* s is the decimal string of the non-negative integer n
IsDecimalOf(s, n) ==
    /\ Len(s) >= 1
    /\ IsDigits(s)
    /\ Len(s) > 1 => s[1] # "0"
    /\ ParseDec(s) = n

\* a forward the claims call settled with a resolved_time, fee included
Counted(fwd) ==
    /\ Has(fwd, "status") /\ fwd.status = "settled"
    /\ Has(fwd, "resolved_time") /\ Has(fwd, "fee")

RECURSIVE WindowSum(_, _, _)
\* msat earned by the first n forwards of fs resolved strictly after cutoff
WindowSum(fs, n, cutoff) ==
    IF n = 0 THEN 0
    ELSE WindowSum(fs, n - 1, cutoff)
           + (IF Counted(fs[n]) /\ fs[n].resolved_time > cutoff
              THEN fs[n].fee ELSE 0)

\* the instant `now` denotes
NowInstant == Timestamp(tz, now)

\* C1: the three sums are nested cumulative windows: a settled forward with
\* a resolved_time adds its fee to the month sum iff it resolved strictly
\* after now - 30d, to the week sum iff strictly after now - 7d, and to the
\* day sum iff strictly after now - 24h.
C1_NestedWindows ==
    pc \in {"sum_loop", "done"} =>
        /\ day_fee_sum   = WindowSum(forwards, j - 1, NowInstant - DayLen)
        /\ week_fee_sum  = WindowSum(forwards, j - 1, NowInstant - WeekLen)
        /\ month_fee_sum = WindowSum(forwards, j - 1, NowInstant - MonthLen)

\* a forward that is filtered out: not settled, or settled without a
\* resolved_time
NotCounted(fwd) ==
    /\ Has(fwd, "status")
    /\ fwd.status # "settled" \/ ~Has(fwd, "resolved_time")

\* C2: a forward whose status is not "settled", or a settled forward without
\* resolved_time, leaves the three sums as they are and does not make the
\* call fail: the loop moves on to the next forward.
C2_FilteredForwardIgnored ==
    [][ (/\ pc = "sum_loop" /\ j <= Len(forwards) /\ clock' = clock
         /\ NotCounted(forwards[j]))
        => /\ day_fee_sum' = day_fee_sum
           /\ week_fee_sum' = week_fee_sum
           /\ month_fee_sum' = month_fee_sum
           /\ pc' = "sum_loop" /\ error' = None /\ j' = j + 1 ]_vars

C2_Witness ==
    /\ pc = "done"
    /\ Len(forwards) = 2
    /\ forwards[1].status = "failed" /\ Has(forwards[1], "resolved_time")
    /\ forwards[2].status = "settled" /\ ~Has(forwards[2], "resolved_time")
    /\ result.month_fee_sum = <<"0">>

NoMatch(details) == \A k \in 1..Len(details) : details[k].source # our_nodeid

\* a list-channels round-trip that returned a response
ChannelAnswered == pc = "chan_loop" /\ calls' # calls /\ error' # "RpcError"

\* C3: a channel whose list-channels response has no entry sourced by our
\* node (an empty response included) adds nothing to channel_fees and raises
\* nothing; the report that is returned carries the entries collected for
\* the other channels and the three sums.
C3_UnmatchedChannelSkipped ==
    /\ [][ (ChannelAnswered /\ NoMatch(channel_detail'))
           => /\ channel_fees' = channel_fees
              /\ error' = None
              /\ i' = i + 1
              /\ pc' \in {"chan_loop", "listforwards"} ]_vars
    /\ [](pc = "done" => /\ result.channel_fees = channel_fees
                         /\ DOMAIN result = {"channel_fees", "day_fee_sum",
                                             "week_fee_sum", "month_fee_sum"})

C3_Witness ==
    /\ pc = "done"
    /\ Len(channels) = 2
    /\ NoMatch(channel_detail)
    /\ Len(result.channel_fees) = 1

Min(S) == CHOOSE m \in S : \A n \in S : m <= n

\* the text between the second "x" of s and the next "x" or the end of s
ThirdSegment(s) ==
    LET xs  == {k \in 1..Len(s) : s[k] = "x"}
        x1  == Min(xs)
        x2  == Min(xs \ {x1})
        end == Min({k \in xs : k > x2} \cup {Len(s) + 1})
    IN  SubSeq(s, x2 + 1, end - 1)

\* a step that appends to channel_fees
EntryAdded == pc = "chan_loop" /\ Len(channel_fees') = Len(channel_fees) + 1

\* C4: the chan_point of an entry is the channel's funding_txid, a colon and
\* the output index: the decimal string of the funding_output field when the
\* channel has one, else the third x-delimited segment of short_channel_id.
C4_ChanPoint ==
    [][ EntryAdded =>
          LET channel == channels[i]
              point   == Last(channel_fees').chan_point
              n       == Len(channel.funding_txid)
              index   == SubSeq(point, n + 2, Len(point))
          IN  /\ SubSeq(point, 1, n) = channel.funding_txid
              /\ point[n + 1] = ":"
              /\ IF Has(channel, "funding_output")
                 THEN IsDecimalOf(index, channel.funding_output)
                 ELSE index = ThirdSegment(channel.short_channel_id) ]_vars

C4_Witness ==
    /\ pc = "done"
    /\ Len(channel_fees) = 2
    /\ Has(channels[1], "funding_output")
    /\ channels[1].short_channel_id = Scid3
    /\ channel_fees[1].chan_point = <<"a", "b", ":", "1">>
    /\ ~Has(channels[2], "funding_output")
    /\ channel_fees[2].chan_point = <<"a", "b", ":", "0">>

\* position of "." in s, 0 when there is none
DotAt(s) == IF \E k \in 1..Len(s) : s[k] = "."
            THEN Min({k \in 1..Len(s) : s[k] = "."}) ELSE 0

\* C6: fee_per_mil and base_fee_msat are the decimal strings of a policy
\* sourced by our node, and fee_rate is fee_per_millionth / 1,000,000 with
\* exactly 8 decimals: the integer part is fee_per_millionth div 1,000,000
\* and the fraction is (fee_per_millionth mod 1,000,000) * 100 padded with
\* zeros to 8 digits.
C6_FeeRate ==
    [][ EntryAdded =>
          LET entry == Last(channel_fees')
              rate  == entry.fee_rate
              dot   == DotAt(rate)
              whole == SubSeq(rate, 1, dot - 1)
              frac  == SubSeq(rate, dot + 1, Len(rate))
          IN  \E k \in 1..Len(channel_detail') :
                LET detail == channel_detail'[k]
                    ppm    == detail.fee_per_millionth
                IN  /\ detail.source = our_nodeid
                    /\ IsDecimalOf(entry.base_fee_msat, detail.base_fee_millisatoshi)
                    /\ IsDecimalOf(entry.fee_per_mil, ppm)
                    /\ dot > 0
                    /\ IsDecimalOf(whole, ppm \div 1000000)
                    /\ Len(frac) = 8 /\ IsDigits(frac)
                    /\ ParseDec(frac) = (ppm % 1000000) * 100 ]_vars

C6_Witness ==
    /\ pc = "done"
    /\ Len(channel_fees) = 2
    /\ channel_fees[1].fee_per_mil = <<"1", "0", "0">>
    /\ channel_fees[1].fee_rate = <<"0", ".", "0", "0", "0", "1", "0", "0", "0", "0">>
    /\ channel_fees[2].fee_rate = <<"1", ".", "5", "0", "0", "0", "0", "0", "0", "0">>

\* C7: one list-channels answer adds at most one entry, built from the first
\* policy sourced by our node, behind the entries of the channels before it;
\* channel_fees never holds more entries than channels were visited.
C7_OneEntryPerChannelInOrder ==
    /\ [][ ChannelAnswered =>
             \/ channel_fees' = channel_fees
             \/ /\ Len(channel_fees') = Len(channel_fees) + 1
                /\ SubSeq(channel_fees', 1, Len(channel_fees)) = channel_fees
                /\ i' = i + 1
                /\ LET first == Min({k \in 1..Len(channel_detail') :
                                       channel_detail'[k].source = our_nodeid})
                       entry == Last(channel_fees')
                   IN  /\ ParseDec(entry.base_fee_msat)
                            = channel_detail'[first].base_fee_millisatoshi
                       /\ ParseDec(entry.fee_per_mil)
                            = channel_detail'[first].fee_per_millionth ]_vars
    /\ [](Len(channel_fees) <= i - 1 /\ i - 1 <= Len(channels))

C7_Witness ==
    /\ pc = "done"
    /\ Len(channels) = 2 /\ Len(channel_fees) = 2
    /\ Len(channel_detail) = 2
    /\ channel_detail[1].source = our_nodeid
    /\ channel_detail[2].source = our_nodeid
    /\ channel_detail[1].fee_per_millionth # channel_detail[2].fee_per_millionth

\* the whole satoshis in msat: the q with q * 1000 <= msat < (q + 1) * 1000
WholeSat(msat) ==
    CHOOSE q \in 0..msat : q * 1000 <= msat /\ msat < (q + 1) * 1000

\* C5: each sum of the report is the decimal string of the window's msat
\* total divided by 1000 and truncated; the total is the sum of the untruncated
\* fees (1999 msat give "1", 999 msat give "0").
C5_TruncatedSat ==
    pc = "done" =>
        LET n == Len(forwards)
        IN  /\ IsDecimalOf(result.day_fee_sum,
                           WholeSat(WindowSum(forwards, n, day_ago)))
            /\ IsDecimalOf(result.week_fee_sum,
                           WholeSat(WindowSum(forwards, n, week_ago)))
            /\ IsDecimalOf(result.month_fee_sum,
                           WholeSat(WindowSum(forwards, n, month_ago)))

C5_Witness ==
    /\ pc = "done"
    /\ Len(forwards) = 2
    /\ Counted(forwards[1]) /\ forwards[1].fee = 999
    /\ Counted(forwards[2]) /\ forwards[2].fee = 1000
    /\ day_fee_sum = 1999
    /\ result.day_fee_sum = <<"1">>

\* every field the collaborator interface lists without a question mark
RequiredFieldsPresent ==
    /\ \A k \in 1..Len(channels) :
         Has(channels[k], "short_channel_id") /\ Has(channels[k], "funding_txid")
    /\ \A k \in 1..Len(forwards) :
         Has(forwards[k], "fee") /\ Has(forwards[k], "status")

ChannelFieldMissing ==
    /\ ChannelAnswered
    /\ ~NoMatch(channel_detail')
    /\ \/ ~Has(channels[i], "funding_txid")
       \/ /\ ~Has(channels[i], "funding_output")
          /\ Cardinality({k \in 1..Len(channels[i].short_channel_id) :
                            channels[i].short_channel_id[k] = "x"}) < 2

\* the next forward lacks a field the loop reads from it
ForwardFieldMissing ==
    /\ pc = "sum_loop" /\ j <= Len(forwards) /\ clock' = clock
    /\ \/ ~Has(forwards[j], "status")
       \/ /\ forwards[j].status = "settled"
          /\ Has(forwards[j], "resolved_time")
          /\ ~Has(forwards[j], "fee")

C9_ClockReadBeforeRpcs ==
    [][ (pc = "read_clock" /\ pc' = "sum_loop") => calls = <<>> ]_vars

\* C9 (amended): the three cutoffs come from one reading of the clock, taken
\* when list-funds, the list-channels calls and list-forwards have returned
\* and before the first forward is added up; no RPC follows the reading.
C9_CutoffsFromReadingAfterRpcs ==
    /\ [][ (pc = "read_clock" /\ pc' = "sum_loop") =>
             /\ now' = LocalNow(tz, clock)
             /\ day_ago' = Timestamp(tz, now' - DayLen)
             /\ week_ago' = Timestamp(tz, now' - WeekLen)
             /\ month_ago' = Timestamp(tz, now' - MonthLen)
             /\ calls' = calls
             /\ calls[1] = <<"listfunds">>
             /\ Last(calls) = <<"listforwards">> ]_vars
    /\ [][ (pc = "sum_loop" \/ pc = "done") =>
             \/ pc' = "idle"
             \/ (calls' = calls /\ cutoffs' = cutoffs) ]_vars

C9_Witness ==
    /\ pc = "done"
    /\ now = LocalNow(tz, StartClock + 1)
    /\ day_ago = Timestamp(tz, LocalNow(tz, StartClock) - DayLen) + 1
    /\ Len(calls) = 3

\* C10 as stated: a call makes exactly three round-trips.
C10_ThreeRoundTrips == pc = "done" => Len(calls) = 3

\* C10 (amended): a call makes one list-funds round-trip, one list-channels
\* round-trip per funded channel in list-funds order, and one list-forwards
\* round-trip, whatever calls were served before it.
C10_RoundTripPerChannel ==
    pc = "done" =>
        calls = <<(<<"listfunds">>)>>
                  \o [k \in 1..Len(channels) |->
                        <<"listchannels", channels[k].short_channel_id>>]
                  \o <<(<<"listforwards">>)>>

C10_Witness ==
    /\ pc = "done"
    /\ served = "result"
    /\ Len(channels) = 2
    /\ Len(calls) = 4

====
